---- MODULE Spec2Model ----
(***************************************************************************)
(* Model of entity_extraction_chatbot.py: AdvancedEntityExtractor          *)
(* (parse_date, extract_entities) and the interactive_extractor loop.      *)
(*                                                                         *)
(* Strings are sequences of one-character strings.  Regular expressions    *)
(* are syntax trees; Match gives, for a tree and a start offset, the       *)
(* results of Python's backtracking matcher in the order it tries them,    *)
(* so the head of that list is the match re finds.                         *)
(***************************************************************************)
EXTENDS Integers, Sequences, FiniteSets, TLC

VARIABLES pc, text, ents, today, entities, outcome, date_str, parsed

vars == <<pc, text, ents, today, entities, outcome, date_str, parsed>>

-----------------------------------------------------------------------------
(* Characters *)

UpperSeq == <<"A","B","C","D","E","F","G","H","I","J","K","L","M",
              "N","O","P","Q","R","S","T","U","V","W","X","Y","Z">>

LowerSeq == <<"a","b","c","d","e","f","g","h","i","j","k","l","m",
              "n","o","p","q","r","s","t","u","v","w","x","y","z">>

DigitSeq == <<"0","1","2","3","4","5","6","7","8","9">>

UpperChars == {UpperSeq[i] : i \in 1..26}

LowerChars == {LowerSeq[i] : i \in 1..26}

DigitChars == {DigitSeq[i] : i \in 1..10}

WordChars == UpperChars \cup LowerChars \cup DigitChars \cup {"_"}

SpaceChars == {" ", "\t"}

\* str.lower() on one character
LowerChar(c) ==
    IF c \in UpperChars
    THEN LowerSeq[CHOOSE i \in 1..26 : UpperSeq[i] = c]
    ELSE c

\* str.upper() on one character
UpperChar(c) ==
    IF c \in LowerChars
    THEN UpperSeq[CHOOSE i \in 1..26 : LowerSeq[i] = c]
    ELSE c

\* str.lower()
lower(s) == [i \in 1..Len(s) |-> LowerChar(s[i])]

\* s[a:b] with 0-based offsets
Slice(s, a, b) == IF b > a THEN SubSeq(s, a + 1, b) ELSE <<>>

RECURSIVE LStrip(_)
LStrip(s) ==
    IF s # <<>> /\ Head(s) \in SpaceChars THEN LStrip(Tail(s)) ELSE s

RECURSIVE RStrip(_)
RStrip(s) ==
    IF s # <<>> /\ s[Len(s)] \in SpaceChars
    THEN RStrip(SubSeq(s, 1, Len(s) - 1))
    ELSE s

\* str.strip()
strip(s) == RStrip(LStrip(s))

-----------------------------------------------------------------------------
(* Regular expression syntax trees *)

NGroups == 6

Chr(c) == [t |-> "chr", c |-> c]

Cls(cs) == [t |-> "cls", cs |-> cs]

Cat(xs) == [t |-> "cat", xs |-> xs]

Alt(xs) == [t |-> "alt", xs |-> xs]

\* greedy repetition, hi = -1 for no upper limit
Rep(x, lo, hi) == [t |-> "rep", x |-> x, lo |-> lo, hi |-> hi]

Opt(x) == Rep(x, 0, 1)

Plus(x) == Rep(x, 1, -1)

Star(x) == Rep(x, 0, -1)

\* capturing group number k
Grp(k, x) == [t |-> "grp", k |-> k, x |-> x]

\* \b
WB == [t |-> "wb"]

\* (?!x)
NotAhead(x) == [t |-> "nla", x |-> x]

\* a literal word
Lit(w) == Cat([i \in 1..Len(w) |-> Chr(w[i])])

NoCaps == [k \in 1..NGroups |-> <<-1, -1>>]

IsWordAt(s, i) == i >= 0 /\ i < Len(s) /\ s[i + 1] \in WordChars

AtWordBoundary(s, i) == IsWordAt(s, i - 1) # IsWordAt(s, i)

\* does character c match the set cs (re.IGNORECASE when ic)
InClass(c, cs, ic) ==
    IF ic THEN LowerChar(c) \in cs \/ UpperChar(c) \in cs ELSE c \in cs

RECURSIVE Match(_, _, _, _, _)
RECURSIVE MatchCat(_, _, _, _, _)
RECURSIVE MatchCatFrom(_, _, _, _)
RECURSIVE MatchAlt(_, _, _, _, _)
RECURSIVE MatchRep(_, _, _, _, _, _)
RECURSIVE MatchRepFrom(_, _, _, _, _, _)

\* every way for re to match s at offset i, best first:
\* a sequence of [e |-> end offset, c |-> captures]
Match(re, s, i, caps, ic) ==
    CASE re.t = "chr" ->
           IF i < Len(s) /\ InClass(s[i + 1], {re.c}, ic)
           THEN << [e |-> i + 1, c |-> caps] >> ELSE <<>>
      [] re.t = "cls" ->
           IF i < Len(s) /\ InClass(s[i + 1], re.cs, ic)
           THEN << [e |-> i + 1, c |-> caps] >> ELSE <<>>
      [] re.t = "cat" -> MatchCat(re.xs, s, i, caps, ic)
      [] re.t = "alt" -> MatchAlt(re.xs, s, i, caps, ic)
      [] re.t = "rep" -> MatchRep(re, s, i, caps, ic, 0)
      [] re.t = "grp" ->
           LET rs == Match(re.x, s, i, caps, ic)
           IN  [j \in 1..Len(rs) |->
                  [e |-> rs[j].e, c |-> [rs[j].c EXCEPT ![re.k] = <<i, rs[j].e>>]]]
      [] re.t = "wb" ->
           IF AtWordBoundary(s, i) THEN << [e |-> i, c |-> caps] >> ELSE <<>>
      [] re.t = "nla" ->
           IF Match(re.x, s, i, caps, ic) = <<>>
           THEN << [e |-> i, c |-> caps] >> ELSE <<>>

MatchCat(xs, s, i, caps, ic) ==
    IF xs = <<>> THEN << [e |-> i, c |-> caps] >>
    ELSE MatchCatFrom(Match(Head(xs), s, i, caps, ic), Tail(xs), s, ic)

MatchCatFrom(rs, xs, s, ic) ==
    IF rs = <<>> THEN <<>>
    ELSE MatchCat(xs, s, Head(rs).e, Head(rs).c, ic)
           \o MatchCatFrom(Tail(rs), xs, s, ic)

MatchAlt(xs, s, i, caps, ic) ==
    IF xs = <<>> THEN <<>>
    ELSE Match(Head(xs), s, i, caps, ic) \o MatchAlt(Tail(xs), s, i, caps, ic)

MatchRep(re, s, i, caps, ic, n) ==
    LET more == IF re.hi = -1 \/ n < re.hi
                THEN MatchRepFrom(Match(re.x, s, i, caps, ic), re, s, i, ic, n)
                ELSE <<>>
        stop == IF n >= re.lo THEN << [e |-> i, c |-> caps] >> ELSE <<>>
    IN  more \o stop

MatchRepFrom(rs, re, s, i, ic, n) ==
    IF rs = <<>> THEN <<>>
    ELSE (IF Head(rs).e > i
          THEN MatchRep(re, s, Head(rs).e, Head(rs).c, ic, n + 1)
          ELSE <<>>)
           \o MatchRepFrom(Tail(rs), re, s, i, ic, n)

\* pattern.match(s, i): the match at offset i, <<>> when there is none
MatchAt(re, s, i, ic) ==
    LET rs == Match(re, s, i, NoCaps, ic)
    IN  IF rs = <<>> THEN <<>> ELSE << [b |-> i, e |-> rs[1].e, c |-> rs[1].c] >>

RECURSIVE FindFrom(_, _, _, _)
\* the non-overlapping matches of re in s from offset i on, left to right
FindFrom(re, s, i, ic) ==
    IF i > Len(s) THEN <<>>
    ELSE LET m == MatchAt(re, s, i, ic)
         IN  IF m = <<>> THEN FindFrom(re, s, i + 1, ic)
             ELSE m \o FindFrom(re, s, IF m[1].e > i THEN m[1].e ELSE i + 1, ic)

\* re.search(pattern, s) is not None
Search(re, s, ic) == \E i \in 0..Len(s) : Match(re, s, i, NoCaps, ic) # <<>>

\* text of group k of match m, "" when the group did not take part
GroupText(s, m, k) == Slice(s, m.c[k][1], m.c[k][2])

\* findall for a pattern without groups: the matched substrings
FindAllText(re, s, ic) ==
    LET ms == FindFrom(re, s, 0, ic)
    IN  [j \in 1..Len(ms) |-> Slice(s, ms[j].b, ms[j].e)]

\* findall for a pattern with NGroups groups: one tuple of group texts a match
FindAllGroups(re, s, ic) ==
    LET ms == FindFrom(re, s, 0, ic)
    IN  [j \in 1..Len(ms) |-> [k \in 1..NGroups |-> GroupText(s, ms[j], k)]]

-----------------------------------------------------------------------------
(* String constants of the source *)

s_today == <<"t","o","d","a","y">>

s_tomorrow == <<"t","o","m","o","r","r","o","w">>

s_yesterday == <<"y","e","s","t","e","r","d","a","y">>

s_next == <<"n","e","x","t">>

s_monday == <<"m","o","n","d","a","y">>

s_tuesday == <<"t","u","e","s","d","a","y">>

s_wednesday == <<"w","e","d","n","e","s","d","a","y">>

s_thursday == <<"t","h","u","r","s","d","a","y">>

s_friday == <<"f","r","i","d","a","y">>

s_saturday == <<"s","a","t","u","r","d","a","y">>

s_sunday == <<"s","u","n","d","a","y">>

s_am == <<"a","m">>

s_pm == <<"p","m">>

s_minute == <<"m","i","n","u","t","e">>

s_min == <<"m","i","n">>

s_mins == <<"m","i","n","s">>

s_m == <<"m">>

s_hour == <<"h","o","u","r">>

s_hr == <<"h","r">>

s_hours == <<"h","o","u","r","s">>

s_h == <<"h">>

s_for == <<"f","o","r">>

s_exit == <<"e","x","i","t">>

s_None == <<"N","o","n","e">>

\* the suffix f"{number} mins" appends to the number
s_mins_label == <<" ","m","i","n","s">>

\* the suffix f"{number} hours" appends to the number
s_hours_label == <<" ","h","o","u","r","s">>

WeekdayNames ==
    <<s_monday, s_tuesday, s_wednesday, s_thursday, s_friday, s_saturday, s_sunday>>

-----------------------------------------------------------------------------
(* The patterns of the source *)

Digit == Cls(DigitChars)

Space == Cls(SpaceChars)

WeekdayAlt == Alt([i \in 1..7 |-> Lit(WeekdayNames[i])])

\* r'next\s+(monday|...|sunday)', used with re.match on the lowered string
next_day_pattern == Cat(<<Lit(s_next), Plus(Space), Grp(1, WeekdayAlt)>>)

\* r'\b(?:today|tomorrow|yesterday)\b' | r'\bnext\s+(?:Monday|...|Sunday)\b',
\* compiled with re.IGNORECASE
date_regex ==
    Alt(<< Cat(<<WB, Alt(<<Lit(s_today), Lit(s_tomorrow), Lit(s_yesterday)>>), WB>>),
           Cat(<<WB, Lit(s_next), Plus(Space), WeekdayAlt, WB>>) >>)

AmPm == Alt(<<Lit(s_am), Lit(s_pm)>>)

\* r'\b\d{1,2}(?::\d{2})?\s*(?:am|pm)\b' | r'\b\d{1,2}\s*(?:am|pm)\b', re.IGNORECASE
time_regex ==
    Alt(<< Cat(<<WB, Rep(Digit, 1, 2), Opt(Cat(<<Chr(":"), Rep(Digit, 2, 2)>>)),
                 Star(Space), AmPm, WB>>),
           Cat(<<WB, Rep(Digit, 1, 2), Star(Space), AmPm, WB>>) >>)

MinuteWords == Alt(<<Lit(s_minute), Lit(s_min), Lit(s_mins)>>)

HourWords == Alt(<<Lit(s_hour), Lit(s_hr), Lit(s_hours)>>)

\* the six duration patterns, in the order of the list
duration_patterns ==
    << Cat(<<WB, Grp(1, Plus(Digit)), Star(Space), MinuteWords, WB>>),
       Cat(<<WB, Grp(2, Plus(Digit)), Star(Space), HourWords, WB>>),
       Cat(<<WB, Lit(s_for), Plus(Space), Grp(3, Plus(Digit)), Star(Space),
             MinuteWords, WB>>),
       Cat(<<WB, Lit(s_for), Plus(Space), Grp(4, Plus(Digit)), Star(Space),
             HourWords, WB>>),
       Cat(<<WB, Grp(5, Plus(Digit)), Alt(<<Lit(s_m), Lit(s_min)>>), WB>>),
       Cat(<<WB, Grp(6, Plus(Digit)), Alt(<<Lit(s_h), Lit(s_hr)>>), WB>>) >>

\* '|'.join(duration_patterns), re.IGNORECASE
full_duration_pattern == Alt(duration_patterns)

\* r'(?:minute|min|mins|m)(?!\w)', re.IGNORECASE
minute_unit_pattern ==
    Cat(<<Alt(<<Lit(s_minute), Lit(s_min), Lit(s_mins), Lit(s_m)>>),
          NotAhead(Cls(WordChars))>>)

\* r'(?:hour|hr|hours|h)(?!\w)', re.IGNORECASE
hour_unit_pattern ==
    Cat(<<Alt(<<Lit(s_hour), Lit(s_hr), Lit(s_hours), Lit(s_h)>>),
          NotAhead(Cls(WordChars))>>)

CapWord == Cat(<<Cls(UpperChars), Plus(Cls(LowerChars))>>)

\* r'\b[A-Z][a-z]+ (?:[A-Z][a-z]+)?\b', case sensitive
name_pattern == Cat(<<WB, CapWord, Chr(" "), Opt(CapWord), WB>>)

-----------------------------------------------------------------------------
(* The calendar: datetime arithmetic and strftime("%Y-%m-%d").             *)
(* A date is its proleptic Gregorian ordinal (date.toordinal()).           *)

DAYS_IN_MONTH == <<31, 28, 31, 30, 31, 30, 31, 31, 30, 31, 30, 31>>

DAYS_BEFORE_MONTH == <<0, 31, 59, 90, 120, 151, 181, 212, 243, 273, 304, 334>>

IsLeap(y) == y % 4 = 0 /\ (y % 100 # 0 \/ y % 400 = 0)

DaysBeforeYear(y) ==
    LET p == y - 1 IN p * 365 + (p \div 4) - (p \div 100) + (p \div 400)

\* date(y, m, d).toordinal()
Ymd2Ord(y, m, d) ==
    DaysBeforeYear(y) + DAYS_BEFORE_MONTH[m]
      + (IF m > 2 /\ IsLeap(y) THEN 1 ELSE 0) + d

\* date.fromordinal(n) as <<year, month, day>>
Ord2Ymd(ordinal) ==
    LET n0   == ordinal - 1
        n400 == n0 \div 146097
        r400 == n0 % 146097
        n100 == r400 \div 36524
        r100 == r400 % 36524
        n4   == r100 \div 1461
        r4   == r100 % 1461
        n1   == r4 \div 365
        n    == r4 % 365
        year == n400 * 400 + 1 + n100 * 100 + n4 * 4 + n1
        leap == n1 = 3 /\ (n4 # 24 \/ n100 = 3)
        m0   == (n + 50) \div 32
        pre0 == DAYS_BEFORE_MONTH[m0] + (IF m0 > 2 /\ leap THEN 1 ELSE 0)
        month == IF pre0 > n THEN m0 - 1 ELSE m0
        pre  == IF pre0 > n
                THEN pre0 - (DAYS_IN_MONTH[month]
                               + (IF month = 2 /\ leap THEN 1 ELSE 0))
                ELSE pre0
    IN  IF n1 = 4 \/ n100 = 4 THEN <<year - 1, 12, 31>>
        ELSE <<year, month, n - pre + 1>>

\* datetime.weekday(): Monday is 0
weekday(d) == (d + 6) % 7

DigitOf(n) == DigitSeq[n + 1]

\* "%02d"
Pad2(n) == <<DigitOf((n \div 10) % 10), DigitOf(n % 10)>>

\* "%04d"
Pad4(n) == <<DigitOf((n \div 1000) % 10), DigitOf((n \div 100) % 10),
             DigitOf((n \div 10) % 10), DigitOf(n % 10)>>

\* d.strftime("%Y-%m-%d")
strftime(d) ==
    LET ymd == Ord2Ymd(d)
    IN  Pad4(ymd[1]) \o <<"-">> \o Pad2(ymd[2]) \o <<"-">> \o Pad2(ymd[3])

-----------------------------------------------------------------------------
(* parse_date *)

\* the dictionary days: 'monday': 0 ... 'sunday': 6
days(target_day) == (CHOOSE i \in 1..7 : WeekdayNames[i] = target_day) - 1

\* days_ahead as the nearest later weekday: the difference modulo 7, a week
\* when that is 0
days_ahead_mod(target_day, now) ==
    LET d == (days(target_day) - weekday(now) + 7) % 7
    IN  IF d = 0 THEN 7 ELSE d

\* days_ahead without the added week
days_ahead_no_week(target_day, now) == days(target_day) - weekday(now)

\* days_ahead = days[target_day] - today.weekday() + 7
days_ahead(target_day, now) == days(target_day) - weekday(now) + 7

\* the dictionary date_mapping
date_mapping(now) ==
    [k \in {s_today, s_tomorrow, s_yesterday} |->
       CASE k = s_today -> now
         [] k = s_tomorrow -> now + 1
         [] k = s_yesterday -> now - 1]

\* parse_date(date_str) when datetime.now() falls on day now
parse_date(ds, now) ==
    LET low == lower(ds)
        next_day_match == MatchAt(next_day_pattern, low, 0, FALSE)
    IN  IF next_day_match # <<>>
        THEN LET target_day == GroupText(low, next_day_match[1], 1)
             IN  strftime(now + days_ahead(target_day, now))
        ELSE IF low \in DOMAIN date_mapping(now)
             THEN strftime(date_mapping(now)[low])
             ELSE ds

-----------------------------------------------------------------------------
(* extract_entities *)

RECURSIVE FirstNonEmpty(_)
\* next((m for m in match if m), None)
FirstNonEmpty(match) ==
    IF match = <<>> THEN s_None
    ELSE IF Head(match) # <<>> THEN Head(match)
    ELSE FirstNonEmpty(Tail(match))

\* duration_entry with the hour test before the minute test
duration_entry_hours_first(number, txt) ==
    IF Search(hour_unit_pattern, txt, TRUE) THEN << number \o s_hours_label >>
    ELSE IF Search(minute_unit_pattern, txt, TRUE) THEN << number \o s_mins_label >>
    ELSE <<>>

\* the if/elif on the whole text that picks the unit of one duration entry:
\* the entry for number, or nothing when neither search succeeds
duration_entry(number, txt) ==
    IF Search(minute_unit_pattern, txt, TRUE) THEN << number \o s_mins_label >>
    ELSE IF Search(hour_unit_pattern, txt, TRUE) THEN << number \o s_hours_label >>
    ELSE <<>>

RECURSIVE processed_durations(_, _)
\* the loop over duration_matches
processed_durations(duration_matches, txt) ==
    IF duration_matches = <<>> THEN <<>>
    ELSE duration_entry(FirstNonEmpty(Head(duration_matches)), txt)
           \o processed_durations(Tail(duration_matches), txt)

\* ner_persons without the test of the label
ner_any_label(doc_ents) == [j \in 1..Len(doc_ents) |-> doc_ents[j].text]

\* [ent.text for ent in doc.ents if ent.label_ == 'PERSON']
ner_persons(doc_ents) ==
    LET ps == SelectSeq(doc_ents, LAMBDA ent : ent.label_ = "PERSON")
    IN  [j \in 1..Len(ps) |-> ps[j].text]

\* the attendee candidates: the NER persons, or when there are none the
\* matches of name_pattern (names)
attendees(names, doc_ents) ==
    IF ner_persons(doc_ents) = <<>> THEN names ELSE ner_persons(doc_ents)

InSeq(x, s) == \E j \in 1..Len(s) : s[j] = x

RECURSIVE FromKeys(_, _)
FromKeys(acc, rest) ==
    IF rest = <<>> THEN acc
    ELSE FromKeys(IF InSeq(Head(rest), acc) THEN acc ELSE Append(acc, Head(rest)),
                  Tail(rest))

RECURSIVE KeepLast(_)
KeepLast(names) ==
    IF names = <<>> THEN <<>>
    ELSE IF InSeq(Head(names), Tail(names)) THEN KeepLast(Tail(names))
    ELSE <<Head(names)>> \o KeepLast(Tail(names))

\* a de-duplication that keeps the last occurrence of each name
dict_fromkeys_keep_last(names) == KeepLast(names)

\* list(dict.fromkeys(names))
dict_fromkeys(names) == FromKeys(<<>>, names)

\* what the regular expressions find in the text; none of it depends on
\* the NER model or on the clock
text_matches(txt) ==
    [date_matches |-> FindAllText(date_regex, txt, TRUE),
     TIME         |-> FindAllText(time_regex, txt, TRUE),
     DURATION     |-> processed_durations(
                          FindAllGroups(full_duration_pattern, txt, TRUE), txt),
     names        |-> FindAllText(name_pattern, txt, FALSE)]

\* entities_of where only the categories that found something get a key
entities_of_found_only(m, doc_ents, now) ==
    LET full == [DATE     |-> [j \in 1..Len(m.date_matches) |->
                                 parse_date(m.date_matches[j], now)],
                 TIME     |-> m.TIME,
                 DURATION |-> m.DURATION,
                 ATTENDEE |-> dict_fromkeys(attendees(m.names, doc_ents))]
    IN  [k \in {x \in DOMAIN full : full[x] # <<>>} |-> full[k]]

\* the dictionary extract_entities returns, from the matches m of the text,
\* the entities doc_ents of the doc and the day now of the clock
entities_of(m, doc_ents, now) ==
    [DATE     |-> [j \in 1..Len(m.date_matches) |-> parse_date(m.date_matches[j], now)],
     TIME     |-> m.TIME,
     DURATION |-> m.DURATION,
     ATTENDEE |-> dict_fromkeys(attendees(m.names, doc_ents))]

\* the value extract_entities(text) returns when self.nlp(text) gives a doc
\* with entities doc_ents and the clock reads day now
extract_entities(txt, doc_ents, now) == entities_of(text_matches(txt), doc_ents, now)

-----------------------------------------------------------------------------
(* Inputs: the lines typed, the output of the NER model, the clock *)

MaxWords == 2

MaxEnts == 2

MaxSpanTokens == 2

NumDays == 8

NumSessionDays == 2

w_Jane == <<"J","a","n","e">>

w_Doe == <<"D","o","e">>

w_tomorrow == <<"t","o","m","o","r","r","o","w">>

w_3pm == <<"3","p","m">>

w_2h == <<"2","h">>

w_45m == <<"4","5","m">>

w_30 == <<"3","0">>

w_mins == <<"m","i","n","s">>

w_hours == <<"h","o","u","r","s">>

w_team == <<"t","e","a","m">>

Vocabulary ==
    {w_Jane, w_Doe, w_tomorrow, w_3pm, w_2h, w_45m, w_30, w_mins, w_hours, w_team}

RECURSIVE Sentences(_)
\* the texts of at most n words of Vocabulary, one space between words
Sentences(n) ==
    IF n = 0 THEN { <<>> }
    ELSE LET shorter == Sentences(n - 1)
         IN  shorter \cup Vocabulary
               \cup { t \o <<" ">> \o w : t \in shorter \ { <<>> }, w \in Vocabulary }

line_meet == <<"M","e","e","t"," ","J","o","h","n"," ","S","m","i","t","h"," ","t","o","m","o","r","r","o","w"," ","a","t"," ","3","p","m"," ","f","o","r"," ","3","0"," ","m","i","n","s">>

line_jane == <<"J","a","n","e"," ","D","o","e"," ","B","o","b"," ","L","e","e"," ","J","a","n","e"," ","D","o","e">>

line_hours == <<"2"," ","h","o","u","r","s"," ","a","t"," ","3","p","m">>

line_padded == <<" "," ","n","e","x","t"," "," ","F","r","i","d","a","y"," ","1","0",":","3","0"," ","A","M"," ">>

line_exit == <<"e","x","i","t">>

line_EXIT == <<"E","X","I","T">>

line_Exit_padded == <<" ","E","x","i","t"," ">>

ExitLines == {line_exit, line_EXIT, line_Exit_padded}

\* what input() can return
Lines ==
    Sentences(MaxWords) \cup {line_meet, line_jane, line_hours, line_padded}
      \cup ExitLines

RECURSIVE TokScan(_, _, _)
TokScan(s, i, b) ==
    IF i = Len(s) THEN (IF b >= 0 THEN << <<b, i>> >> ELSE <<>>)
    ELSE IF s[i + 1] \in SpaceChars
         THEN (IF b >= 0 THEN << <<b, i>> >> ELSE <<>>) \o TokScan(s, i + 1, -1)
         ELSE TokScan(s, i + 1, IF b >= 0 THEN b ELSE i)

\* the tokens of a text as <<start, end>> offsets
Tokens(s) == TokScan(s, 0, -1)

Labels == {"PERSON", "ORG"}

Min(a, b) == IF a < b THEN a ELSE b

RECURSIVE NerFrom(_, _, _, _)
\* the entity lists a model can give from token a on: at most k spans of
\* at most MaxSpanTokens tokens, in document order, not overlapping
NerFrom(txt, toks, a, k) ==
    IF k = 0 THEN { <<>> }
    ELSE { <<>> } \cup
         UNION { UNION { UNION {
             { << [text |-> Slice(txt, toks[i][1], toks[j][2]), label_ |-> l] >> \o rest :
                 rest \in NerFrom(txt, toks, j + 1, k - 1) }
             : l \in Labels }
             : j \in i..Min(i + MaxSpanTokens - 1, Len(toks)) }
             : i \in a..Len(toks) }

\* doc.ents for self.nlp(txt)
NerOutputs(txt) == NerFrom(txt, Tokens(txt), 1, MaxEnts)

FirstDay == Ymd2Ord(2024, 2, 28)

\* the days datetime.now() falls on
Todays == FirstDay..(FirstDay + NumDays - 1)

SessionDays == FirstDay..(FirstDay + NumSessionDays - 1)

s_next_sp == <<"n","e","x","t"," ">>

s_Next_sp2 == <<"N","e","x","t"," "," ">>

s_someday == <<"s","o","m","e","d","a","y">>

s_Tomorrow == <<"T","o","m","o","r","r","o","w">>

\* the arguments of parse_date
DateStrs ==
    { s_next_sp \o WeekdayNames[i] : i \in 1..7 }
      \cup { s_Next_sp2 \o [j \in 1..Len(WeekdayNames[i]) |-> UpperChar(WeekdayNames[i][j])]
               : i \in {1, 5} }
      \cup {s_today, s_tomorrow, s_yesterday, s_Tomorrow, s_someday}

-----------------------------------------------------------------------------
(* STATE MACHINE *)

NoResult == <<>>

Init ==
    /\ pc = "prompt"
    /\ text = <<>>
    /\ ents = <<>>
    /\ today = FirstDay
    /\ entities = NoResult
    /\ outcome = "start"
    /\ date_str = <<>>
    /\ parsed = <<>>

\* text = input(...).strip(), then the exit test
ReadLine ==
    /\ pc = "prompt"
    /\ \E line \in Lines :
         /\ text' = strip(line)
         /\ IF lower(text') = s_exit
            THEN pc' = "done" /\ outcome' = "exit"
            ELSE pc' = "extract" /\ outcome' = "input"
    /\ UNCHANGED <<ents, today, entities, date_str, parsed>>

\* input() raises (end of input): the outer handler ends the function
InputFails ==
    /\ pc = "prompt"
    /\ pc' = "done"
    /\ outcome' = "critical"
    /\ UNCHANGED <<text, ents, today, entities, date_str, parsed>>

\* results = extractor.extract_entities(text) returns
ExtractReturns ==
    /\ pc = "extract"
    /\ \E m \in {text_matches(text)}, doc_ents \in NerOutputs(text), now \in SessionDays :
         /\ now >= today
         /\ ents' = doc_ents
         /\ today' = now
         /\ entities' = entities_of(m, doc_ents, now)
    /\ outcome' = "ok"
    /\ pc' = "print"
    /\ UNCHANGED <<text, date_str, parsed>>

\* the categories are printed and the loop goes back to the prompt; the
\* locals of the iteration are dead from here on and are cleared
PrintResults ==
    /\ pc = "print"
    /\ pc' = "prompt"
    /\ text' = <<>>
    /\ ents' = <<>>
    /\ entities' = NoResult
    /\ UNCHANGED <<today, outcome, date_str, parsed>>

\* ExtractRaises without the handler of the loop: the exception reaches the
\* outer handler and the function ends
ExtractRaisesUncaught ==
    /\ pc = "extract"
    /\ outcome' = "error"
    /\ pc' = "done"
    /\ text' = <<>>
    /\ UNCHANGED <<ents, today, entities, date_str, parsed>>

\* self.nlp(text) raises: extract_entities logs and re-raises, the loop's
\* handler reports the error and the loop goes back to the prompt (text is
\* dead from here on and is cleared)
ExtractRaises ==
    /\ pc = "extract"
    /\ outcome' = "error"
    /\ pc' = "prompt"
    /\ text' = <<>>
    /\ UNCHANGED <<ents, today, entities, date_str, parsed>>

\* Ctrl-C at the prompt, during the extraction or while printing
Interrupt ==
    /\ pc \in {"prompt", "extract", "print"}
    /\ pc' = "done"
    /\ outcome' = "interrupted"
    /\ UNCHANGED <<text, ents, today, entities, date_str, parsed>>

Next ==
    \/ ReadLine
    \/ InputFails
    \/ ExtractReturns
    \/ PrintResults
    \/ ExtractRaises
    \/ Interrupt

Spec == Init /\ [][Next]_vars

\* parse_date on its own
InitDate ==
    /\ pc = "parse"
    /\ date_str \in DateStrs
    /\ today \in Todays
    /\ parsed = <<>>
    /\ text = <<>>
    /\ ents = <<>>
    /\ entities = NoResult
    /\ outcome = "start"

ParseDate ==
    /\ pc = "parse"
    /\ parsed' = parse_date(date_str, today)
    /\ pc' = "parsed"
    /\ UNCHANGED <<text, ents, today, entities, outcome, date_str>>

NextDate == ParseDate

SpecDate == InitDate /\ [][NextDate]_vars

-----------------------------------------------------------------------------
(* Properties *)

\* extract_entities has just returned: text, ents, today and entities are
\* the argument, the doc, the clock and the result of that call
Returned == pc = "print"

Keys == {"DATE", "TIME", "DURATION", "ATTENDEE"}

Chars == WordChars \cup SpaceChars \cup {":", "-"}

PersonTexts(doc_ents) ==
    LET idx == {j \in 1..Len(doc_ents) : doc_ents[j].label_ = "PERSON"}
    IN  {doc_ents[j].text : j \in idx}

HasPerson(doc_ents) == \E j \in 1..Len(doc_ents) : doc_ents[j].label_ = "PERSON"

EndsWith(s, suffix) ==
    /\ Len(s) >= Len(suffix)
    /\ SubSeq(s, Len(s) - Len(suffix) + 1, Len(s)) = suffix

AllDigits(s) == s # <<>> /\ \A j \in 1..Len(s) : s[j] \in DigitChars

\* entry is "<n> mins" / "<n> hours" for a number n
IsLabelled(entry, label) ==
    /\ EndsWith(entry, label)
    /\ AllDigits(SubSeq(entry, 1, Len(entry) - Len(label)))

\* C1: every result extract_entities returns has exactly the keys DATE, TIME,
\* DURATION and ATTENDEE, each mapped to a sequence of strings, and for the
\* empty text the four sequences are empty.
C1_FourKeys ==
    Returned =>
      /\ DOMAIN entities = Keys
      /\ \A k \in Keys : entities[k] \in Seq(Seq(Chars))
      /\ text = <<>> => \A k \in Keys : entities[k] = <<>>

C1_Witness ==
    /\ Returned
    /\ text = <<>>
    /\ DOMAIN entities = Keys
    /\ \A k \in Keys : entities[k] = <<>>

s_30_mins == <<"3","0"," ","m","i","n","s">>

s_John_Smith == <<"J","o","h","n"," ","S","m","i","t","h">>

\* C3: for "Meet John Smith tomorrow at 3pm for 30 mins" the result has
\* tomorrow's date in DATE, "3pm" in TIME, "30 mins" in DURATION and
\* "John Smith" in ATTENDEE, both when the model reports John Smith as the
\* one person and when it reports no person (fallback).
C3_MeetExample ==
    (/\ Returned
     /\ text = line_meet
     /\ \/ ~HasPerson(ents)
        \/ \E j \in 1..Len(ents) :
              /\ ents[j] = [text |-> s_John_Smith, label_ |-> "PERSON"]
              /\ \A i \in 1..Len(ents) : i # j => ents[i].label_ # "PERSON")
    => /\ InSeq(strftime(today + 1), entities.DATE)
       /\ InSeq(w_3pm, entities.TIME)
       /\ InSeq(s_30_mins, entities.DURATION)
       /\ InSeq(s_John_Smith, entities.ATTENDEE)

\* the candidate attendee names of the call, from the NER persons or from
\* the fallback
Candidates ==
    IF HasPerson(ents)
    THEN LET idx == {j \in 1..Len(ents) : ents[j].label_ = "PERSON"}
             f[S \in SUBSET idx] ==
                 IF S = {} THEN <<>>
                 ELSE LET j == CHOOSE x \in S : \A y \in S : x >= y
                      IN  Append(f[S \ {j}], ents[j].text)
         IN  f[idx]
    ELSE FindAllText(name_pattern, text, FALSE)

FirstIndex(s, x) == CHOOSE j \in 1..Len(s) : s[j] = x /\ \A i \in 1..(j - 1) : s[i] # x

\* C4: ATTENDEE has no string twice, holds exactly the distinct strings of
\* the candidate sequence, in the order of their first occurrences there.
C4_Dedup ==
    Returned =>
      LET a == entities.ATTENDEE
          c == Candidates
      IN  /\ \A i, j \in 1..Len(a) : i # j => a[i] # a[j]
          /\ {a[i] : i \in 1..Len(a)} = {c[i] : i \in 1..Len(c)}
          /\ \A i, j \in 1..Len(a) :
               i < j => FirstIndex(c, a[i]) < FirstIndex(c, a[j])

s_Jane_Doe == <<"J","a","n","e"," ","D","o","e">>

s_Bob_Lee == <<"B","o","b"," ","L","e","e">>

\* a name mentioned twice, around another one
C4_Witness ==
    /\ Returned
    /\ Candidates = <<s_Jane_Doe, s_Bob_Lee, s_Jane_Doe>>
    /\ entities.ATTENDEE = <<s_Jane_Doe, s_Bob_Lee>>

\* a number followed by a minute unit, as the duration patterns take it
MinutePhrase ==
    Alt(<<duration_patterns[1], duration_patterns[3], duration_patterns[5]>>)

\* a number followed by an hour unit, as the duration patterns take it
HourPhrase ==
    Alt(<<duration_patterns[2], duration_patterns[4], duration_patterns[6]>>)

\* C5: when the text has both a minute phrase and an hour phrase, every
\* DURATION entry is "<n> mins" and none is "<n> hours".
C5_MinutesFirst ==
    (Returned /\ entities.DURATION # <<>>
       /\ Search(MinutePhrase, text, TRUE) /\ Search(HourPhrase, text, TRUE))
    => \A j \in 1..Len(entities.DURATION) :
         /\ IsLabelled(entities.DURATION[j], s_mins_label)
         /\ ~EndsWith(entities.DURATION[j], s_hours_label)

s_2_mins == <<"2"," ","m","i","n","s">>

s_45_mins == <<"4","5"," ","m","i","n","s">>

C5_Witness ==
    /\ Returned
    /\ text = w_2h \o <<" ">> \o w_45m
    /\ entities.DURATION = <<s_2_mins, s_45_mins>>

\* C6: an exception raised by extract_entities never ends the session (the
\* error is reported and the loop is back at the prompt); a line that is
\* "exit" in any letter case after stripping ends the loop, and
\* extract_entities is never called on it.
C6_LoopSurvivesErrors ==
    /\ outcome = "error" => pc = "prompt"
    /\ lower(text) = s_exit => pc = "done" /\ outcome = "exit"
    /\ outcome = "exit" => pc = "done" /\ lower(text) = s_exit
    /\ pc \in {"extract", "print"} => lower(text) # s_exit

\* the error of one line was reported and the loop prompts again
C6_Witness == outcome = "error" /\ pc = "prompt" /\ entities = NoResult

\* C7: the fallback is used if and only if the model returns no PERSON
\* span; with at least one PERSON span ATTENDEE is exactly the
\* de-duplicated person texts in the model's order, no fallback match is
\* added and no span with another label is included.
C7_FallbackOnlyWithoutPersons ==
    Returned =>
      /\ HasPerson(ents) =>
           /\ entities.ATTENDEE = dict_fromkeys(Candidates)
           /\ \A j \in 1..Len(entities.ATTENDEE) :
                entities.ATTENDEE[j] \in PersonTexts(ents)
      /\ ~HasPerson(ents) =>
           entities.ATTENDEE = dict_fromkeys(FindAllText(name_pattern, text, FALSE))

\* "Jane Doe" with Jane a PERSON and Doe an ORG: only Jane is an attendee,
\* though the fallback would have found "Jane Doe"
C7_Witness ==
    /\ Returned
    /\ text = s_Jane_Doe
    /\ ents = << [text |-> w_Jane, label_ |-> "PERSON"],
                 [text |-> w_Doe, label_ |-> "ORG"] >>
    /\ entities.ATTENDEE = <<w_Jane>>

Letters == UpperChars \cup LowerChars

\* the text has a minute unit word (minute, min, mins, m): the word stands
\* alone or follows a number
HasMinuteWord(txt) ==
    \E i \in 0..Len(txt) :
       /\ Match(minute_unit_pattern, txt, i, NoCaps, TRUE) # <<>>
       /\ i = 0 \/ txt[i] \notin Letters

\* C9: when the text has an hour unit after a number and no minute unit
\* word anywhere, every duration number is output as "<n> hours", whatever
\* else the text contains.
C9_HoursWithoutMinuteWord ==
    (Returned /\ Search(HourPhrase, text, TRUE) /\ ~HasMinuteWord(text))
    => /\ entities.DURATION # <<>>
       /\ \A j \in 1..Len(entities.DURATION) :
            IsLabelled(entities.DURATION[j], s_hours_label)

\* the strings of DateStrs that name weekday number t (0 is monday)
NamesWeekday(ds, t) ==
    lower(ds) \in {s_next_sp \o WeekdayNames[t + 1],
                   s_next_sp \o <<" ">> \o WeekdayNames[t + 1]}

\* parse_date has returned for "next <weekday t>"
ParsedNext(t) == pc = "parsed" /\ NamesWeekday(date_str, t)

\* the offset of the specification: (t - c + 7) mod 7, and 7 when that is 0
SpecOffset(t, c) == IF (t - c + 7) % 7 = 0 THEN 7 ELSE (t - c + 7) % 7

\* C2: for every target weekday t and current weekday c,
\* parse_date("next <weekday>") is today plus (t - c + 7) mod 7, with 7 in
\* place of 0: the nearest such weekday strictly after today.
C2_NearestWeekday ==
    \A t \in 0..6 :
       ParsedNext(t) => parsed = strftime(today + SpecOffset(t, weekday(today)))

\* C8 as stated: the offset is never less than 7, and "next monday" on a
\* Sunday is 8 days ahead.
C8_OffsetAtLeast7 ==
    \A t \in 0..6 :
       ParsedNext(t) =>
         /\ \E k \in 7..13 : parsed = strftime(today + k)
         /\ (t = 0 /\ weekday(today) = 6) => parsed = strftime(today + 8)

\* C8 amended: the offset is t - c + 7, between 1 and 13; it is 7 or more
\* exactly when t >= c, and "next monday" on a Sunday is 1 day ahead.
C8_OffsetIsDifferencePlus7 ==
    \A t \in 0..6 :
       ParsedNext(t) =>
         LET c == weekday(today)
             k == t - c + 7
         IN  /\ parsed = strftime(today + k)
             /\ k \in 1..13
             /\ k >= 7 <=> t >= c
             /\ (t = 0 /\ c = 6) => parsed = strftime(today + 1)

\* "next monday" on a Sunday
C8_Witness ==
    /\ ParsedNext(0)
    /\ weekday(today) = 6
    /\ parsed = strftime(today + 1)

\* C10: the date for "next <weekday>" falls on that weekday and is between
\* 1 and 13 days after today.
C10_OnWeekdayAfterToday ==
    \A t \in 0..6 :
       ParsedNext(t) =>
         \E k \in 1..13 :
            /\ parsed = strftime(today + k)
            /\ weekday(today + k) = t

\* "next sunday" on a Monday: 13 days ahead
C10_Witness ==
    /\ ParsedNext(6)
    /\ weekday(today) = 0
    /\ parsed = strftime(today + 13)

====
